---------------------------- MODULE Spec2Model ----------------------------
(***************************************************************************)
(* Model of the Soneium proxy route (pages/api/soneium.js).                *)
(*                                                                         *)
(* The handler is modelled in the two revisions that carry the calc        *)
(* customisation: "v15" (src/api/soneium.js, lines 121-319) and "v12"      *)
(* (src/unnamed/part_000).  One request is processed at a time:            *)
(*   idle --HandlerStart--> responded | fetching                           *)
(*   fetching --FetchResolve | FetchReject | TextReject--> responded       *)
(*   responded --Finish--> idle                                            *)
(*                                                                         *)
(* JavaScript strings whose characters the code inspects (addresses, host  *)
(* names, type / season / raw parameters) are sequences of one-character   *)
(* strings; strings the code only copies are TLA+ strings.                 *)
(***************************************************************************)
EXTENDS Integers, Sequences, FiniteSets, TLC

VARIABLES rev, env, pc, req, calls, upstream, res

vars == <<rev, env, pc, req, calls, upstream, res>>

-----------------------------------------------------------------------------
(* Bounds of the model.                                                    *)

\* Longest array of season records an upstream body holds.
MaxRecords == 2

-----------------------------------------------------------------------------
(* Characters and strings.                                                 *)

Digits == {"0", "1", "2", "3", "4", "5", "6", "7", "8", "9"}

DigitVal(c) ==
    CASE c = "0" -> 0 [] c = "1" -> 1 [] c = "2" -> 2 [] c = "3" -> 3
      [] c = "4" -> 4 [] c = "5" -> 5 [] c = "6" -> 6 [] c = "7" -> 7
      [] c = "8" -> 8 [] c = "9" -> 9

DigitChar(d) ==
    CASE d = 0 -> "0" [] d = 1 -> "1" [] d = 2 -> "2" [] d = 3 -> "3"
      [] d = 4 -> "4" [] d = 5 -> "5" [] d = 6 -> "6" [] d = 7 -> "7"
      [] d = 8 -> "8" [] d = 9 -> "9"

WhiteSpace == {" ", "\t", "\n"}

\* String.prototype.toLowerCase, one character at a time.
LowerChar(c) ==
    CASE c = "A" -> "a" [] c = "B" -> "b" [] c = "C" -> "c" [] c = "D" -> "d"
      [] c = "E" -> "e" [] c = "F" -> "f" [] c = "G" -> "g" [] c = "H" -> "h"
      [] c = "I" -> "i" [] c = "J" -> "j" [] c = "K" -> "k" [] c = "L" -> "l"
      [] c = "M" -> "m" [] c = "N" -> "n" [] c = "O" -> "o" [] c = "P" -> "p"
      [] c = "Q" -> "q" [] c = "R" -> "r" [] c = "S" -> "s" [] c = "T" -> "t"
      [] c = "U" -> "u" [] c = "V" -> "v" [] c = "W" -> "w" [] c = "X" -> "x"
      [] c = "Y" -> "y" [] c = "Z" -> "z" [] OTHER -> c

toLowerCase(s) == [i \in 1..Len(s) |-> LowerChar(s[i])]

Rep(c, n) == [i \in 1..n |-> c]

\* The absent value of an optional string (null / undefined) and a present one.
None == [present |-> FALSE, val |-> <<>>]
Some(s) == [present |-> TRUE, val |-> s]

\* JavaScript  x || d  on an optional string: null, undefined and "" are falsy.
OrElse(o, d) == IF o.present /\ o.val # <<>> THEN o.val ELSE d

-----------------------------------------------------------------------------
(* JavaScript numbers: an integer or NaN.                                  *)

NaN == [nan |-> TRUE, n |-> 0]
Num(n) == [nan |-> FALSE, n |-> n]

\* a === b on numbers: NaN equals nothing.
NumEq(a, b) == ~a.nan /\ ~b.nan /\ a.n = b.n

RECURSIVE SkipWS(_)
SkipWS(s) == IF s # <<>> /\ Head(s) \in WhiteSpace THEN SkipWS(Tail(s)) ELSE s

RECURSIVE DigitPrefix(_)
DigitPrefix(s) ==
    IF s # <<>> /\ Head(s) \in Digits
    THEN <<Head(s)>> \o DigitPrefix(Tail(s))
    ELSE <<>>

RECURSIVE DigitsValue(_)
DigitsValue(ds) ==
    IF ds = <<>> THEN 0
    ELSE 10 * DigitsValue(SubSeq(ds, 1, Len(ds) - 1)) + DigitVal(ds[Len(ds)])

Unsigned(s) == IF s # <<>> /\ Head(s) \in {"+", "-"} THEN Tail(s) ELSE s

Signed(s, v) == IF s # <<>> /\ Head(s) = "-" THEN 0 - v ELSE v

\* parseInt(s, 10): leading white space, an optional sign, then the longest
\* run of digits; whatever follows the digits is ignored.
parseInt(s) ==
    LET t  == SkipWS(s)
        ds == DigitPrefix(Unsigned(t))
    IN  IF ds = <<>> THEN NaN ELSE Num(Signed(t, DigitsValue(ds)))

RECURSIVE TrimRight(_)
TrimRight(s) ==
    IF s # <<>> /\ s[Len(s)] \in WhiteSpace
    THEN TrimRight(SubSeq(s, 1, Len(s) - 1))
    ELSE s

\* Number(s) on a string: the whole trimmed string must be a decimal integer
\* literal; the empty string is 0.
StringToNumber(s) ==
    LET t  == TrimRight(SkipWS(s))
        u  == Unsigned(t)
    IN  IF t = <<>> THEN Num(0)
        ELSE IF u # <<>> /\ DigitPrefix(u) = u THEN Num(Signed(t, DigitsValue(u)))
        ELSE NaN

RECURSIVE NatToString(_)
NatToString(n) ==
    IF n < 10 THEN <<DigitChar(n)>>
    ELSE NatToString(n \div 10) \o <<DigitChar(n % 10)>>

\* String(x) on a number.
NumberToString(x) ==
    IF x.nan THEN <<"N", "a", "N">>
    ELSE IF x.n < 0 THEN <<"-">> \o NatToString(0 - x.n)
    ELSE NatToString(x.n)

\* Number.isFinite(x)
isFinite(x) == ~x.nan

-----------------------------------------------------------------------------
(* JSON values, as JSON.parse builds them, and body texts.                 *)

JUndefined == [t |-> "undefined"]
JNull == [t |-> "null"]
JNum(n) == [t |-> "number", n |-> n]
JStr(s) == [t |-> "string", s |-> s]
\* A string value whose characters the handler never inspects.
JLit(l) == [t |-> "literal", l |-> l]
JArr(a) == [t |-> "array", a |-> a]
\* An object: its members, in order, as <<key, value>> pairs.
JObj(o) == [t |-> "object", o |-> o]

\* typeof v === 'object' && v !== null, and Array.isArray(v)
isObject(v) == v.t \in {"object", "array"}
isArray(v) == v.t = "array"

\* v.k, and v?.k when v may be null: the member of an object, undefined on
\* anything else (no array, string or number has one of the keys read here).
Member(v, k) ==
    IF v.t = "object" /\ \E i \in 1..Len(v.o) : v.o[i][1] = k
    THEN LET last == CHOOSE i \in 1..Len(v.o) :
                       /\ v.o[i][1] = k
                       /\ \A j \in 1..Len(v.o) : v.o[j][1] = k => j <= i
         IN  v.o[last][2]
    ELSE JUndefined

\* The truthiness of a value:  if (v), !v.
Truthy(v) ==
    CASE v.t = "undefined" -> FALSE
      [] v.t = "null"      -> FALSE
      [] v.t = "number"    -> v.n # 0
      [] v.t = "string"    -> v.s # <<>>
      [] v.t = "literal"   -> v.l # ""
      [] OTHER             -> TRUE

\* Number(v).  An array converts through its string form: [] is "", [x] is
\* the string of x; longer arrays and objects give NaN.
RECURSIVE ToNumber(_)
ToNumber(v) ==
    CASE v.t = "number"    -> Num(v.n)
      [] v.t = "string"    -> StringToNumber(v.s)
      [] v.t = "null"      -> Num(0)
      [] v.t = "array"     ->
            IF Len(v.a) = 0 THEN Num(0)
            ELSE IF Len(v.a) = 1 /\ v.a[1].t \in {"number", "string", "null", "array"}
                 THEN IF v.a[1].t = "null" THEN Num(0) ELSE ToNumber(v.a[1])
            ELSE NaN
      [] OTHER             -> NaN

\* Array.prototype.find: the first element that satisfies the test of
\* pickSeasonPayload,  d => Number(d?.season) === Number(seasonToPick).
FindSeason(arr, seasonToPick) ==
    LET hits == {i \in 1..Len(arr) :
                    NumEq(ToNumber(Member(arr[i], "season")), seasonToPick)}
    IN  IF hits = {} THEN JUndefined
        ELSE arr[CHOOSE i \in hits : \A j \in hits : i <= j]

\* A body text.  json: whether JSON.parse accepts it; compact: whether it is
\* written the way JSON.stringify writes (no white space between tokens);
\* val: the value it denotes (for a text that is not JSON, its characters).
Text(json, compact, val) == [json |-> json, compact |-> compact, val |-> val]

\* JSON.stringify(v): the compact text of v.
stringify(v) == Text(TRUE, TRUE, v)

\* JSON.parse(text), defined when text.json.
parse(text) == text.val

EmptyText == Text(FALSE, TRUE, JLit(""))

-----------------------------------------------------------------------------
(* URLs and the process-wide configuration.                                *)

\* A URL string: valid says whether  new URL(...)  accepts it.
URL(scheme, hostname, port, path) ==
    [valid |-> TRUE, scheme |-> scheme, hostname |-> hostname, port |-> port,
     path |-> path]

\* A configured string that is no URL.
NotAURL == [valid |-> FALSE, scheme |-> "", hostname |-> <<>>, port |-> <<>>,
            path |-> "not a url"]

DefaultPort(scheme) ==
    IF scheme = "https" THEN <<"4", "4", "3">>
    ELSE IF scheme = "http" THEN <<"8", "0">>
    ELSE <<>>

\* new URL(u).host: the lower-cased host name, and the port unless it is the
\* scheme's default port.
URLHost(u) ==
    toLowerCase(u.hostname)
      \o (IF u.port = <<>> \/ u.port = DefaultPort(u.scheme)
          THEN <<>> ELSE <<":">> \o u.port)

PortalHost == <<"p", "o", "r", "t", "a", "l", ".", "s", "o", "n", "e", "i", "u", "m", ".", "o", "r", "g">>

\* An unset environment variable, and one set to a URL string.
Unset == [set |-> FALSE, url |-> NotAURL]
SetTo(u) == [set |-> TRUE, url |-> u]

\* process.env.X || fallback, for the upstream overrides.
EnvOr(v, fallback) == IF v.set THEN v.url ELSE fallback

UPSTREAMS ==
    [calc  |-> EnvOr(env.CALC_UPSTREAM,
                     URL("https", PortalHost, <<>>, "/api/profile/calculator")),
     tx    |-> EnvOr(env.TX_UPSTREAM,
                     URL("https", PortalHost, <<>>, "/api/profile/tx-per-season")),
     bonus |-> EnvOr(env.BONUS_UPSTREAM,
                     URL("https", PortalHost, <<>>, "/api/profile/bonus-dapp"))]

\* The default season each revision has built in.
BuiltInSeasonV15 == 7
BuiltInSeasonV12 == 2

BuiltInSeason == IF rev = "v15" THEN BuiltInSeasonV15 ELSE BuiltInSeasonV12

\* Number(process.env.DEFAULT_SEASON || 7)
DEFAULT_SEASON ==
    IF env.DEFAULT_SEASON.present /\ env.DEFAULT_SEASON.val # <<>>
    THEN StringToNumber(env.DEFAULT_SEASON.val)
    ELSE Num(BuiltInSeason)

\* Number(process.env.DEFAULT_TX_SEASON || DEFAULT_SEASON)
DEFAULT_TX_SEASON ==
    IF env.DEFAULT_TX_SEASON.present /\ env.DEFAULT_TX_SEASON.val # <<>>
    THEN StringToNumber(env.DEFAULT_TX_SEASON.val)
    ELSE DEFAULT_SEASON

NoEnv ==
    [CALC_UPSTREAM |-> Unset, TX_UPSTREAM |-> Unset, BONUS_UPSTREAM |-> Unset,
     DEFAULT_SEASON |-> None, DEFAULT_TX_SEASON |-> None]

AppHost == <<"m", "y", ".", "a", "p", "p">>

\* The deployments checked: each revision as shipped; the calc upstream
\* pointed back at the deployment's own host with the default season
\* overridden; and a tx upstream on a non-default port, a bonus upstream
\* that is no URL and a tx default season of its own.
Deployments ==
    { [rev |-> "v15", env |-> NoEnv],
      [rev |-> "v12", env |-> NoEnv],
      [rev |-> "v15",
       env |-> [NoEnv EXCEPT
                  !.CALC_UPSTREAM =
                      SetTo(URL("https", <<"M", "y", ".", "A", "p", "p">>, <<"4", "4", "3">>, "/api/soneium")),
                  !.DEFAULT_SEASON = Some(<<"2">>)]],
      [rev |-> "v12",
       env |-> [NoEnv EXCEPT
                  !.TX_UPSTREAM =
                      SetTo(URL("https", AppHost, <<"8", "4", "4", "3">>, "/tx")),
                  !.BONUS_UPSTREAM = SetTo(NotAURL),
                  !.DEFAULT_TX_SEASON = Some(<<"5">>)]] }

-----------------------------------------------------------------------------
(* Requests.                                                               *)

CALC == <<"c", "a", "l", "c">>
TX == <<"t", "x">>
BONUS == <<"b", "o", "n", "u", "s">>

\* The length of the hexadecimal part of an address.
HexLen == 40

HexDigits == Digits \cup {"a", "b", "c", "d", "e", "f"}

Query(type, up, address, season, raw) ==
    [type |-> type, up |-> up, address |-> address, season |-> season,
     raw |-> raw]

NoReq ==
    [method |-> "", query |-> Query(None, None, None, None, None),
     headers |-> [xfh |-> None, host |-> None]]

\* The kind the request names: type, else the legacy alias up, else calc;
\* lower-cased, with calculator and base normalised to calc.
typeOf(r) ==
    LET typeRaw == OrElse(r.query.type, OrElse(r.query.up, CALC))
        t       == toLowerCase(typeRaw)
    IN  IF t = <<"c", "a", "l", "c", "u", "l", "a", "t", "o", "r">> \/ t = <<"b", "a", "s", "e">> THEN CALC ELSE t

addressOf(r) == OrElse(r.query.address, <<>>)

hasSeasonParam(r) == r.query.season.present /\ r.query.season.val # <<>>

\* parseInt(seasonRaw, 10) when a season is supplied; undefined otherwise,
\* which is read nowhere and converts to NaN.
seasonOf(r) == IF hasSeasonParam(r) THEN parseInt(r.query.season.val) ELSE NaN

\* Mutant of isAddress: the pattern is not anchored at the end.
isAddressUnanchored(s) ==
    /\ Len(s) >= 2 + HexLen
    /\ s[1] = "0"
    /\ LowerChar(s[2]) = "x"
    /\ \A i \in 3..(2 + HexLen) : LowerChar(s[i]) \in HexDigits

\* /^0x[a-fA-F0-9]{40}$/i.test(s): under the i flag the x matches either case.
isAddress(s) ==
    /\ Len(s) = 2 + HexLen
    /\ s[1] = "0"
    /\ LowerChar(s[2]) = "x"
    /\ \A i \in 3..Len(s) : LowerChar(s[i]) \in HexDigits

\* Mutant of wantRaw: the flag is compared without lower-casing it.
wantRawCaseSensitive(r) ==
    LET rawParam == OrElse(r.query.raw, <<>>)
    IN  rawParam = <<"1">> \/ rawParam = <<"t", "r", "u", "e">>

\* raw=1 or raw=true, in any case.
wantRaw(r) ==
    LET rawParam == toLowerCase(OrElse(r.query.raw, <<>>))
    IN  rawParam = <<"1">> \/ rawParam = <<"t", "r", "u", "e">>

\* Mutant of seasonRejected: the season is validated for the tx kind only.
seasonRejectedTxOnly(r) ==
    /\ typeOf(r) = TX
    /\ hasSeasonParam(r)
    /\ ~isFinite(seasonOf(r)) \/ seasonOf(r).n < 0

\* The season test of the validation.
seasonRejected(r) ==
    /\ typeOf(r) = TX \/ typeOf(r) = CALC
    /\ hasSeasonParam(r)
    /\ ~isFinite(seasonOf(r)) \/ seasonOf(r).n < 0

\* Mutant of seasonForTx: the default is the global default season.
seasonForTxGlobalDefault(r) ==
    IF hasSeasonParam(r) THEN NumberToString(seasonOf(r))
    ELSE NumberToString(DEFAULT_SEASON)

\* The season a tx request forwards.
seasonForTx(r) ==
    IF hasSeasonParam(r) THEN NumberToString(seasonOf(r))
    ELSE NumberToString(DEFAULT_TX_SEASON)

\* A target: the base URL and the members of the URLSearchParams, in order
\* (the values that reach this point hold only letters and digits, which
\* URLSearchParams leaves as they are).
Target(base, qs) == [base |-> base, qs |-> qs]

NoTarget == Target(NotAURL, <<>>)

\* Mutant of targetOf: the bonus kind is sent to the tx upstream.
targetOfBonusToTx(r) ==
    IF typeOf(r) = CALC
    THEN Target(UPSTREAMS.calc, << <<"address", addressOf(r)>> >>)
    ELSE IF typeOf(r) = TX
    THEN Target(UPSTREAMS.tx,
                << <<"address", addressOf(r)>>, <<"season", seasonForTx(r)>> >>)
    ELSE IF typeOf(r) = BONUS
    THEN Target(UPSTREAMS.tx, << <<"address", addressOf(r)>> >>)
    ELSE NoTarget

targetOf(r) ==
    IF typeOf(r) = CALC
    THEN Target(UPSTREAMS.calc, << <<"address", addressOf(r)>> >>)
    ELSE IF typeOf(r) = TX
    THEN Target(UPSTREAMS.tx,
                << <<"address", addressOf(r)>>, <<"season", seasonForTx(r)>> >>)
    ELSE IF typeOf(r) = BONUS
    THEN Target(UPSTREAMS.bonus, << <<"address", addressOf(r)>> >>)
    ELSE NoTarget

\* req.headers['x-forwarded-host'] || req.headers.host || ''
requestHost(r) == OrElse(r.headers.xfh, OrElse(r.headers.host, <<>>))

\* Mutant of isSelfProxy: the hosts are compared as written, not lower-cased.
isSelfProxyCaseSensitive(target, r) ==
    /\ target.base.valid
    /\ URLHost(target.base) # <<>>
    /\ requestHost(r) # <<>>
    /\ URLHost(target.base) = requestHost(r)

\* A target that new URL rejects makes the function return false.
isSelfProxy(target, r) ==
    /\ target.base.valid
    /\ URLHost(target.base) # <<>>
    /\ requestHost(r) # <<>>
    /\ toLowerCase(URLHost(target.base)) = toLowerCase(requestHost(r))

-----------------------------------------------------------------------------
(* Responses.                                                              *)

JsonCT == "application/json; charset=utf-8"

NoHeaders ==
    [ContentType |-> "", CacheControl |-> "",
     XProxyTarget |-> [set |-> FALSE, target |-> NoTarget],
     XSeasonDefault |-> <<>>, XCalcSeasonRequested |-> <<>>, XCalcMatch |-> "",
     AccessControlAllowOrigin |-> "", AccessControlAllowMethods |-> "",
     AccessControlAllowHeaders |-> "", Vary |-> ""]

\* Object.entries(CORS_HEADERS).forEach(([k, v]) => res.setHeader(k, v))
CORS_HEADERS(h) ==
    [h EXCEPT !.AccessControlAllowOrigin = "*",
              !.AccessControlAllowMethods = "GET,OPTIONS",
              !.AccessControlAllowHeaders = "Content-Type, Authorization",
              !.Vary = "Origin"]

Response(status, headers, body) ==
    [status |-> status, headers |-> headers, body |-> body]

NoRes == Response(0, NoHeaders, EmptyText)

\* res.status(status).json(obj), after the CORS headers are set.
jsonResponse(status, obj) ==
    Response(status, [CORS_HEADERS(NoHeaders) EXCEPT !.ContentType = JsonCT],
             stringify(obj))

\* A target as a string value of a JSON body.
JTarget(tg) == [t |-> "target", u |-> tg]

\* The response the handler gives before any outbound call, or NoRes when
\* the request passes every check.
rejection(r) ==
    IF r.method = "OPTIONS"
    THEN Response(204, CORS_HEADERS(NoHeaders), EmptyText)
    ELSE IF r.method # "GET"
    THEN jsonResponse(405, JObj(<< <<"error", JLit("Method Not Allowed")>> >>))
    ELSE IF typeOf(r) \notin {CALC, TX, BONUS}
    THEN jsonResponse(400,
            JObj(<< <<"error", JLit("Invalid type")>>,
                    <<"allow", JArr(<<JLit("calc"), JLit("tx"), JLit("bonus")>>)>> >>))
    ELSE IF ~isAddress(addressOf(r))
    THEN jsonResponse(400, JObj(<< <<"error", JLit("Invalid address")>> >>))
    ELSE IF seasonRejected(r)
    THEN jsonResponse(400, JObj(<< <<"error", JLit("Invalid season")>> >>))
    ELSE IF isSelfProxy(targetOf(r), r)
    THEN jsonResponse(400,
            JObj(<< <<"error", JLit("Refusing to proxy to self")>>,
                    <<"target", JTarget(targetOf(r))>> >>))
    ELSE NoRes

\* Mutant of badGateway: the failure is reported as an internal error.
internalError(e) ==
    jsonResponse(500, JObj(<< <<"error", JLit("Bad gateway")>>,
                              <<"detail", JLit(e)>> >>))

\* The catch of the outbound call.
badGateway(e) ==
    jsonResponse(502, JObj(<< <<"error", JLit("Bad gateway")>>,
                              <<"detail", JLit(e)>> >>))

-----------------------------------------------------------------------------
(* The calc customisation.                                                 *)

\* Mutant of pickSeasonPayload: the last record of the season is taken.
pickLastSeasonPayload(data, seasonToPick) ==
    LET arr == IF isArray(data) THEN data.a
               ELSE IF isArray(Member(data, "seasons")) THEN Member(data, "seasons").a
               ELSE IF isArray(Member(data, "data")) THEN Member(data, "data").a
               ELSE IF isArray(Member(data, "items")) THEN Member(data, "items").a
               ELSE <<>>
        hits == {i \in 1..Len(arr) :
                    NumEq(ToNumber(Member(arr[i], "season")), seasonToPick)}
    IN  IF ~Truthy(data) THEN JUndefined
        ELSE IF isObject(data) /\ ~isArray(data)
                /\ NumEq(ToNumber(Member(data, "season")), seasonToPick)
        THEN data
        ELSE IF hits = {} THEN JUndefined
        ELSE arr[CHOOSE i \in hits : \A j \in hits : j <= i]

\* v15: a single object of the season, a bare array, or an array under
\* seasons, data or items (the first of the three that is an array).
pickSeasonPayload(data, seasonToPick) ==
    IF ~Truthy(data) THEN JUndefined
    ELSE IF isObject(data) /\ ~isArray(data)
            /\ NumEq(ToNumber(Member(data, "season")), seasonToPick)
    THEN data
    ELSE IF isArray(data) THEN FindSeason(data.a, seasonToPick)
    ELSE IF isObject(data)
    THEN LET arrLike ==
                 IF isArray(Member(data, "seasons")) THEN Member(data, "seasons")
                 ELSE IF isArray(Member(data, "data")) THEN Member(data, "data")
                 ELSE IF isArray(Member(data, "items")) THEN Member(data, "items")
                 ELSE JUndefined
         IN  IF arrLike # JUndefined THEN FindSeason(arrLike.a, seasonToPick)
             ELSE JUndefined
    ELSE JUndefined

\* v12: a bare array only.
selectFromArray(data, seasonToPick) ==
    IF isArray(data) THEN FindSeason(data.a, seasonToPick) ELSE JUndefined

seasonToPickOf(r) == IF hasSeasonParam(r) THEN seasonOf(r) ELSE DEFAULT_SEASON

\* upstream.ok
ok(up) == up.status >= 200 /\ up.status <= 299

\* The headers every relayed response starts from.
responseHeaders(r, up) ==
    [CORS_HEADERS(NoHeaders) EXCEPT
        !.ContentType = IF up.contentType # "" THEN up.contentType ELSE JsonCT,
        !.CacheControl = "s-maxage=60, stale-while-revalidate=300",
        !.XProxyTarget = [set |-> TRUE, target |-> targetOf(r)],
        !.XSeasonDefault =
            IF rev = "v15" THEN NumberToString(DEFAULT_SEASON) ELSE <<>>]

\* Mutant of missBody: a miss is answered null.
missBodyNull == Text(TRUE, TRUE, JNull)

\* The body sent on a season miss.
missBody == Text(TRUE, TRUE, JNum(0))

\* The response to a calc request whose body parsed: the selected record, or 0.
shaped(r, up, selected) ==
    LET h == [responseHeaders(r, up) EXCEPT
                 !.ContentType = JsonCT,
                 !.XCalcSeasonRequested = NumberToString(seasonToPickOf(r))]
    IN  IF Truthy(selected)
        THEN Response(up.status, [h EXCEPT !.XCalcMatch = "hit"],
                      stringify(selected))
        ELSE Response(up.status, [h EXCEPT !.XCalcMatch = "miss"], missBody)

\* Whether the calc customisation applies to the upstream's response.
customised(r, up) == typeOf(r) = CALC /\ ok(up) /\ ~wantRaw(r)

\* Mutant of relay: a body that does not parse reaches the outer catch.
relayParseErrorCaught(r, up) ==
    IF customised(r, up) /\ up.body.json
    THEN shaped(r, up,
                IF rev = "v15"
                THEN pickSeasonPayload(parse(up.body), seasonToPickOf(r))
                ELSE selectFromArray(parse(up.body), seasonToPickOf(r)))
    ELSE IF customised(r, up)
    THEN badGateway("SyntaxError: Unexpected token")
    ELSE Response(up.status, responseHeaders(r, up), up.body)

\* The response relayed once the upstream's body is read.
relay(r, up) ==
    IF customised(r, up) /\ up.body.json
    THEN shaped(r, up,
                IF rev = "v15"
                THEN pickSeasonPayload(parse(up.body), seasonToPickOf(r))
                ELSE selectFromArray(parse(up.body), seasonToPickOf(r)))
    ELSE Response(up.status, responseHeaders(r, up), up.body)

-----------------------------------------------------------------------------
(* The inputs: requests and upstream responses.                            *)

Methods == {"GET", "OPTIONS", "POST"}

\* type and up: none (calc by default), an alias in mixed case, the legacy
\* up alone, bonus, and an unknown type that hides a valid up.
TypeParams ==
    { <<None, None>>,
      <<Some(<<"C", "a", "l", "c", "u", "l", "a", "t", "o", "r">>), None>>,
      <<None, Some(<<"T", "X">>)>>,
      <<Some(BONUS), None>>,
      <<Some(<<"e", "v", "i", "l">>), Some(TX)>> }

LowerAddress == <<"0", "x">> \o Rep("a", HexLen - 1) \o <<"9">>
UpperAddress == <<"0", "X">> \o Rep("F", HexLen - 1) \o <<"0">>

\* address: missing, two well-formed ones, one digit short, one digit long,
\* and one with a letter that is no hexadecimal digit.
AddressParams ==
    { None, Some(LowerAddress), Some(UpperAddress),
      Some(<<"0", "x">> \o Rep("a", HexLen - 1)),
      Some(LowerAddress \o <<"b">>),
      Some(<<"0", "x">> \o Rep("a", HexLen - 1) \o <<"g">>) }

SeasonParams ==
    { None, Some(<<>>), Some(<<"7">>), Some(<<"0">>), Some(<<"-", "1">>),
      Some(<<"a", "b", "c">>), Some(<<"7", "a", "b", "c">>) }

RawParams == { None, Some(<<"1">>), Some(<<"T", "R", "U", "E">>), Some(<<"0">>) }

\* x-forwarded-host and host.
HeaderParams ==
    { [xfh |-> None, host |-> Some(AppHost)],
      [xfh |-> None, host |-> Some(<<"P", "O", "R", "T", "A", "L", ".", "S", "o", "n", "e", "i", "u", "m", ".", "o", "r", "g">>)],
      [xfh |-> Some(PortalHost), host |-> Some(AppHost)],
      [xfh |-> Some(AppHost), host |-> Some(PortalHost)],
      [xfh |-> Some(<<>>), host |-> Some(PortalHost)] }

Requests ==
    { [method |-> m, query |-> Query(tp[1], tp[2], a, s, w), headers |-> h] :
        m \in Methods, tp \in TypeParams, a \in AddressParams,
        s \in SeasonParams, w \in RawParams, h \in HeaderParams }

\* Season records, and what else an upstream array may hold.
Record(season, pts) == JObj(<< <<"season", season>>, <<"pts", JNum(pts)>> >>)

R7 == Record(JNum(7), 10)
R7s == Record(JStr(<<"7">>), 20)
R2 == Record(JNum(2), 30)

Elements == {R7, R7s, R2}

SeqsUpTo(S, n) == UNION {[1..k -> S] : k \in 0..n}

Wrapper(key, arr) == JObj(<< <<"total", JNum(Len(arr))>>, <<key, JArr(arr)>> >>)

\* The bodies: every bare array of up to MaxRecords elements; an empty, a
\* one-record and a two-record array under each wrapper name; single
\* records; an array with a null element; objects with no array, with a
\* seasons member that is no array, with a season of their own beside an
\* array, and with two arrays; numbers and null.
JsonValues ==
    {JArr(a) : a \in SeqsUpTo(Elements, MaxRecords)}
      \cup {Wrapper(k, a) : k \in {"seasons", "data", "items"},
                            a \in {<<>>, <<R7s>>, <<R2, R7>>}}
      \cup { R7, R7s, R2,
             JArr(<<JNull, R7>>),
             JObj(<< <<"total", JNum(1)>> >>),
             JObj(<< <<"seasons", JNum(5)>>, <<"data", JArr(<<R7>>)>> >>),
             JObj(<< <<"season", JNum(7)>>, <<"items", JArr(<<R2>>)>> >>),
             JObj(<< <<"seasons", JArr(<<R2>>)>>, <<"data", JArr(<<R7>>)>> >>),
             JNum(0), JNum(5), JNull }

\* The body texts: every value written compactly, two written with white
\* space, and two texts that are not JSON.
BodyTexts ==
    {Text(TRUE, TRUE, v) : v \in JsonValues}
      \cup { Text(TRUE, FALSE, JArr(<<R2, R7>>)), Text(TRUE, FALSE, R7),
             Text(FALSE, TRUE, JLit("<html>")), EmptyText }

Upstream(status, contentType, body, error) ==
    [status |-> status, contentType |-> contentType, body |-> body,
     error |-> error]

NoUpstream == Upstream(0, "", EmptyText, "")

\* Status and content type of the upstream responses.
StatusLines ==
    { <<200, "text/html">>, <<203, "">>, <<404, "application/json">> }

\* The bodies whose reading fails.
PartialBodies == {Text(TRUE, TRUE, JArr(<<R7>>)), Text(FALSE, TRUE, JLit("<html>"))}

Errors == {"TypeError: fetch failed"}

-----------------------------------------------------------------------------
(* The state machine.                                                      *)

Init ==
    /\ \E d \in Deployments : rev = d.rev /\ env = d.env
    /\ pc = "idle"
    /\ req = NoReq
    /\ calls = <<>>
    /\ upstream = NoUpstream
    /\ res = NoRes

\* The handler from its entry to its first await: the method, the
\* validation, the target, the self-proxy guard, and either a response or
\* the outbound call.
HandlerStart ==
    /\ pc = "idle"
    /\ \E r \in Requests :
          /\ req' = r
          /\ IF rejection(r) # NoRes
             THEN /\ res' = rejection(r)
                  /\ calls' = calls
                  /\ pc' = "responded"
             ELSE /\ res' = NoRes
                  /\ calls' = Append(calls, targetOf(r))
                  /\ pc' = "fetching"
    /\ upstream' = NoUpstream
    /\ UNCHANGED <<rev, env>>

\* fetch resolved and upstream.text() gave the body: the rest of the try
\* block.  A target that is no URL never resolves.
FetchResolve ==
    /\ pc = "fetching"
    /\ calls[Len(calls)].base.valid
    /\ \E sl \in StatusLines, b \in BodyTexts :
          /\ upstream' = Upstream(sl[1], sl[2], b, "")
          /\ res' = relay(req, upstream')
    /\ pc' = "responded"
    /\ UNCHANGED <<rev, env, req, calls>>

\* fetch rejected: no upstream response exists.
FetchReject ==
    /\ pc = "fetching"
    /\ \E e \in Errors :
          /\ upstream' = Upstream(0, "", EmptyText, e)
          /\ res' = badGateway(e)
    /\ pc' = "responded"
    /\ UNCHANGED <<rev, env, req, calls>>

\* fetch resolved with a status line and headers, and reading the body
\* failed part of the way.
TextReject ==
    /\ pc = "fetching"
    /\ calls[Len(calls)].base.valid
    /\ \E sl \in StatusLines, b \in PartialBodies, e \in Errors :
          /\ upstream' = Upstream(sl[1], sl[2], b, e)
          /\ res' = badGateway(e)
    /\ pc' = "responded"
    /\ UNCHANGED <<rev, env, req, calls>>

\* The response is sent; nothing of the request is kept.
Finish ==
    /\ pc = "responded"
    /\ pc' = "idle"
    /\ req' = NoReq
    /\ calls' = <<>>
    /\ upstream' = NoUpstream
    /\ res' = NoRes
    /\ UNCHANGED <<rev, env>>

Next ==
    \/ HandlerStart
    \/ FetchResolve
    \/ FetchReject
    \/ TextReject
    \/ Finish

Spec == Init /\ [][Next]_vars

-----------------------------------------------------------------------------
(* What the properties below speak of.                                     *)

\* The request is being, or has been, handled as a GET.
Handled == pc # "idle" /\ req.method = "GET"

\* The upstream answered and its body was read.
Relayed == pc = "responded" /\ upstream.status # 0 /\ upstream.error = ""

KindOK(r) == typeOf(r) \in {CALC, TX, BONUS}

\* 0x and 40 hexadecimal characters, in either case.
WellFormedAddress(a) ==
    /\ Len(a) = 42
    /\ toLowerCase(SubSeq(a, 1, 2)) = <<"0", "x">>
    /\ \A i \in 3..Len(a) : a[i] \in HexDigits \cup {"A", "B", "C", "D", "E", "F"}

\* A season is supplied and it reads as no integer, or as a negative one.
BadSeason(r) ==
    /\ r.query.season.present
    /\ r.query.season.val # <<>>
    /\ parseInt(r.query.season.val).nan \/ parseInt(r.query.season.val).n < 0

\* The request passed the type, address and season validation.
PassedValidation(r) ==
    /\ KindOK(r)
    /\ WellFormedAddress(addressOf(r))
    /\ ~(typeOf(r) \in {CALC, TX} /\ BadSeason(r))

\* The host the request declares: x-forwarded-host when it is present with
\* a value, otherwise host.
DeclaredHost(r) ==
    IF r.headers.xfh.present /\ r.headers.xfh.val # <<>> THEN r.headers.xfh.val
    ELSE IF r.headers.host.present THEN r.headers.host.val
    ELSE <<>>

\* The configured base URL of a kind.
ConfiguredBase(t) ==
    IF t = CALC THEN UPSTREAMS.calc
    ELSE IF t = TX THEN UPSTREAMS.tx
    ELSE UPSTREAMS.bonus

\* The keys, in order, of a query string.
Keys(qs) == [i \in 1..Len(qs) |-> qs[i][1]]

\* The error field of a JSON error body, "" when there is none.
ErrorOf(response) ==
    IF response.body.json /\ Member(parse(response.body), "error").t = "literal"
    THEN Member(parse(response.body), "error").l
    ELSE ""

\* raw is 1 or true, in any case.
RawRequested(r) ==
    /\ r.query.raw.present
    /\ toLowerCase(r.query.raw.val) \in {<<"1">>, <<"t", "r", "u", "e">>}

\* The season a calc request targets.
TargetSeason(r) ==
    IF r.query.season.present /\ r.query.season.val # <<>>
    THEN parseInt(r.query.season.val)
    ELSE DEFAULT_SEASON

\* The array a wrapper object holds under a conventional field name.
WrappedArray(v) ==
    IF Member(v, "seasons").t = "array" THEN Member(v, "seasons").a
    ELSE IF Member(v, "data").t = "array" THEN Member(v, "data").a
    ELSE IF Member(v, "items").t = "array" THEN Member(v, "items").a
    ELSE <<>>

\* The season records of a body, in the order they are searched: the
\* elements of a bare array; or the single object, then the wrapped array.
SeasonRecords(v) ==
    IF v.t = "array" THEN v.a
    ELSE IF v.t = "object" THEN <<v>> \o WrappedArray(v)
    ELSE <<>>

\* The positions of the records of season n.
Matches(v, n) ==
    {i \in 1..Len(SeasonRecords(v)) :
        /\ ~n.nan
        /\ ~ToNumber(Member(SeasonRecords(v)[i], "season")).nan
        /\ ToNumber(Member(SeasonRecords(v)[i], "season")).n = n.n}

FirstMatch(v, n) ==
    SeasonRecords(v)[CHOOSE i \in Matches(v, n) : \A j \in Matches(v, n) : i <= j]

\* A calc response that went through the customisation: no raw flag, a
\* successful upstream status, a JSON body.
Customised ==
    /\ Relayed
    /\ typeOf(req) = CALC
    /\ ~RawRequested(req)
    /\ upstream.status \in 200..299
    /\ upstream.body.json

\* The content type relayed from the upstream: its own, or the JSON default
\* when it sent none.
UpstreamCT == IF upstream.contentType # "" THEN upstream.contentType ELSE JsonCT

CorsSet(h) ==
    /\ h.AccessControlAllowOrigin = "*"
    /\ h.AccessControlAllowMethods = "GET,OPTIONS"
    /\ h.AccessControlAllowHeaders = "Content-Type, Authorization"
    /\ h.Vary = "Origin"

-----------------------------------------------------------------------------
(* The properties.                                                         *)

\* C1: a GET request that passed the type, address and season validation
\* and whose target host equals, case-insensitively, the host the request
\* declares is answered 400, and no outbound call is made for it; an
\* outbound call is made only for a request whose target host differs.
C1_SelfProxyGuard ==
    /\ ( /\ Handled
         /\ PassedValidation(req)
         /\ targetOf(req).base.valid
         /\ DeclaredHost(req) # <<>>
         /\ URLHost(targetOf(req).base) = toLowerCase(DeclaredHost(req)) )
       => (pc = "responded" /\ res.status = 400 /\ calls = <<>>)
    /\ calls # <<>> =>
          \/ ~calls[1].base.valid
          \/ URLHost(calls[1].base) # toLowerCase(DeclaredHost(req))

C1_Witness ==
    /\ pc = "responded"
    /\ req.method = "GET"
    /\ PassedValidation(req)
    /\ ~req.headers.xfh.present
    /\ req.headers.host.val # toLowerCase(req.headers.host.val)
    /\ URLHost(targetOf(req).base) = toLowerCase(req.headers.host.val)
    /\ res.status = 400
    /\ ErrorOf(res) = "Refusing to proxy to self"

\* C2: every outbound call goes to the configured base URL of the request's
\* validated kind, with a query string of address (and season for tx) only;
\* the base URL is a function of the kind and the configuration alone.
C2_Whitelist ==
    /\ Len(calls) <= 1
    /\ calls # <<>> =>
          /\ req.method = "GET"
          /\ KindOK(req)
          /\ calls[1].base = ConfiguredBase(typeOf(req))
          /\ calls[1].base \in {UPSTREAMS.calc, UPSTREAMS.tx, UPSTREAMS.bonus}
          /\ Keys(calls[1].qs) =
                IF typeOf(req) = TX THEN <<"address", "season">> ELSE <<"address">>
          /\ calls[1].qs[1][2] = req.query.address.val

C2_Witness ==
    /\ pc = "fetching"
    /\ req.query.up.present
    /\ req.query.season.present
    /\ req.headers.xfh.present
    /\ req.query.raw.present
    /\ typeOf(req) = TX
    /\ env.TX_UPSTREAM.set
    /\ calls = <<targetOf(req)>>

\* C3: a GET request whose address is missing or is not 0x followed by 40
\* hexadecimal characters (in either case) is answered 400 whatever its
\* other parameters are, and no outbound call is made for it; an outbound
\* call is made only for a well-formed address.
C3_AddressValidation ==
    /\ (Handled /\ ~WellFormedAddress(addressOf(req)))
       => (pc = "responded" /\ res.status = 400 /\ calls = <<>>)
    /\ calls # <<>> => WellFormedAddress(addressOf(req))

C3_Witness ==
    /\ pc = "responded"
    /\ req.method = "GET"
    /\ KindOK(req)
    /\ Len(addressOf(req)) = 43
    /\ ~BadSeason(req)
    /\ res.status = 400
    /\ ErrorOf(res) = "Invalid address"

\* C4 (revision v15): when a customised calc response's body holds a record
\* of the target season, the response body is the first such record,
\* written as JSON, and X-Calc-Match is hit.
C4_SeasonHit ==
    ( /\ rev = "v15"
      /\ Customised
      /\ Matches(parse(upstream.body), TargetSeason(req)) # {} )
    => /\ res.body = Text(TRUE, TRUE, FirstMatch(parse(upstream.body), TargetSeason(req)))
       /\ res.headers.XCalcMatch = "hit"

C4_Witness ==
    /\ rev = "v15"
    /\ Customised
    /\ parse(upstream.body).t = "object"
    /\ Member(parse(upstream.body), "data") = JArr(<<R7s>>)
    /\ req.query.season.val = <<"7", "a", "b", "c">>
    /\ res.body = Text(TRUE, TRUE, R7s)
    /\ res.headers.XCalcMatch = "hit"

\* C5: when a customised calc response's body holds no record of the target
\* season, the response body is the text 0, X-Calc-Match is miss, the
\* content type is the JSON one and the status is the upstream's.
C5_SeasonMiss ==
    ( /\ Customised
      /\ Matches(parse(upstream.body), TargetSeason(req)) = {} )
    => /\ res.body = Text(TRUE, TRUE, JNum(0))
       /\ res.headers.XCalcMatch = "miss"
       /\ res.headers.ContentType = "application/json; charset=utf-8"
       /\ res.status = upstream.status

C5_Witness ==
    /\ Customised
    /\ rev = "v12"
    /\ upstream.status = 203
    /\ upstream.contentType = ""
    /\ upstream.body = Text(TRUE, TRUE, JArr(<<R7, R7s>>))
    /\ ~req.query.season.present
    /\ res.body = Text(TRUE, TRUE, JNum(0))
    /\ res.headers.XCalcMatch = "miss"

\* C6: a calc response to a request with raw set carries the upstream's
\* body text and content type and no X-Calc-Match; a tx or bonus response
\* carries them whatever raw is.
C6_RawPassthrough ==
    ( /\ Relayed
      /\ \/ typeOf(req) = CALC /\ RawRequested(req)
         \/ typeOf(req) \in {TX, BONUS} )
    => /\ res.body = upstream.body
       /\ res.headers.ContentType = UpstreamCT
       /\ res.headers.XCalcMatch = ""
       /\ res.headers.XCalcSeasonRequested = <<>>
       /\ res.status = upstream.status

C6_Witness ==
    /\ Relayed
    /\ typeOf(req) = CALC
    /\ req.query.raw.val = <<"T", "R", "U", "E">>
    /\ upstream.status = 200
    /\ upstream.contentType = "text/html"
    /\ upstream.body = Text(TRUE, FALSE, JArr(<<R2, R7>>))
    /\ res.body = upstream.body
    /\ res.headers.ContentType = "text/html"

\* C7: when the outbound call, or the reading of its body, fails, the one
\* call made is not repeated and the response is 502 with a JSON body of
\* an error field and the error's string, with the CORS headers and with
\* nothing of the upstream: no body, content type or X-Proxy-Target.
C7_TransportFailure ==
    (pc = "responded" /\ upstream.error # "")
    => /\ Len(calls) = 1
       /\ res.status = 502
       /\ res.body = Text(TRUE, TRUE,
                          JObj(<< <<"error", JLit("Bad gateway")>>,
                                  <<"detail", JLit(upstream.error)>> >>))
       /\ res.body # upstream.body
       /\ CorsSet(res.headers)
       /\ res.headers.ContentType = "application/json; charset=utf-8"
       /\ ~res.headers.XProxyTarget.set
       /\ res.headers.CacheControl = ""

C7_Witness ==
    /\ pc = "responded"
    /\ upstream.error # ""
    /\ upstream.status = 200
    /\ upstream.contentType = "text/html"
    /\ upstream.body.json
    /\ res.status = 502

\* C8, as stated: a request of kind calc or tx whose supplied, non-empty
\* season reads as no integer or as a negative one is answered 400 Invalid
\* season with no outbound call; no other request is answered Invalid
\* season.
C8_AsStated ==
    /\ (Handled /\ typeOf(req) \in {CALC, TX} /\ BadSeason(req))
       => /\ pc = "responded"
          /\ res.status = 400
          /\ ErrorOf(res) = "Invalid season"
          /\ calls = <<>>
    /\ (pc = "responded" /\ ErrorOf(res) = "Invalid season")
       => (typeOf(req) \in {CALC, TX} /\ BadSeason(req))

\* C8, amended: such a request is answered 400 with no outbound call, and
\* with Invalid season when its address is well formed (an ill-formed
\* address is reported first); no other request is answered Invalid season:
\* not one without a season, with a season that reads as an integer >= 0,
\* or of kind bonus.
C8_SeasonValidation ==
    /\ (Handled /\ typeOf(req) \in {CALC, TX} /\ BadSeason(req))
       => /\ pc = "responded"
          /\ res.status = 400
          /\ calls = <<>>
          /\ WellFormedAddress(addressOf(req)) => ErrorOf(res) = "Invalid season"
    /\ (pc = "responded" /\ ErrorOf(res) = "Invalid season")
       => (typeOf(req) \in {CALC, TX} /\ BadSeason(req))

C8_Witness ==
    /\ pc = "responded"
    /\ req.method = "GET"
    /\ typeOf(req) = CALC
    /\ WellFormedAddress(addressOf(req))
    /\ req.query.season.val = <<"a", "b", "c">>
    /\ res.status = 400
    /\ ErrorOf(res) = "Invalid season"
    /\ calls = <<>>

\* C9: when the body of a successful upstream response to a calc request
\* without raw is not JSON, the response carries the upstream's body,
\* status and content type, and neither X-Calc-Match nor
\* X-Calc-Season-Requested.
C9_MalformedFailsOpen ==
    ( /\ Relayed
      /\ typeOf(req) = CALC
      /\ ~RawRequested(req)
      /\ upstream.status \in 200..299
      /\ ~upstream.body.json )
    => /\ res.body = upstream.body
       /\ res.status = upstream.status
       /\ res.headers.ContentType = UpstreamCT
       /\ res.headers.XCalcMatch = ""
       /\ res.headers.XCalcSeasonRequested = <<>>

C9_Witness ==
    /\ Relayed
    /\ typeOf(req) = CALC
    /\ ~RawRequested(req)
    /\ upstream.status = 200
    /\ upstream.contentType = "text/html"
    /\ upstream.body = Text(FALSE, TRUE, JLit("<html>"))
    /\ res.body = upstream.body
    /\ res.status = 200

\* C10: the outbound call of a tx request carries the season the request
\* supplies, and otherwise the tx default season, which is the tx override
\* when one is configured and the global default season when none is; the
\* X-Proxy-Target of a relayed response is that call; calc and bonus calls
\* carry the address alone.
C10_TxDefaultSeason ==
    /\ (calls # <<>> /\ typeOf(req) = TX)
       => /\ Len(calls[1].qs) = 2
          /\ calls[1].qs[2][1] = "season"
          /\ calls[1].qs[2][2] =
                IF req.query.season.present /\ req.query.season.val # <<>>
                THEN NumberToString(parseInt(req.query.season.val))
                ELSE IF env.DEFAULT_TX_SEASON.present
                THEN NumberToString(StringToNumber(env.DEFAULT_TX_SEASON.val))
                ELSE NumberToString(DEFAULT_SEASON)
    /\ (calls # <<>> /\ typeOf(req) # TX) => Keys(calls[1].qs) = <<"address">>
    /\ Relayed => (res.headers.XProxyTarget.set
                     /\ res.headers.XProxyTarget.target = calls[1])

C10_Witness ==
    /\ Relayed
    /\ typeOf(req) = TX
    /\ ~req.query.season.present
    /\ env.DEFAULT_TX_SEASON.present
    /\ DEFAULT_SEASON = Num(2)
    /\ res.headers.XProxyTarget.target.qs[2] = <<"season", <<"5">>>>

=============================================================================
